---- MODULE Spec2Model ----
(***************************************************************************)
(* RwVec / PendingRwGuard / RwGuard of src/src/async/rw_vec.rs: a queue-    *)
(* backed exclusive lock over a Vec whose hand-off is gated on an OpenCL    *)
(* event.  One RwVec (with all its clones) is modelled; every call of      *)
(* lock_pending_event creates one request, numbered in enqueue order.      *)
(***************************************************************************)
EXTENDS Naturals, Sequences, FiniteSets

\* Number of lock_pending_event calls made on the container.
NReq == 3

Req == 1..NReq

\* Largest length the Vec is grown to.
MaxLen == 1

\* Number of parameters of the OpenCL kernel the Kernel wraps: clSetKernelArg
\* accepts the argument indices 0..KernelParams-1.
KernelParams == 3

\* Names given to arguments, the kinds of argument, and their values (a
\* scalar, the buffer of an Envoy, or the length of a local buffer).
Names == {"a", "b"}
ArgKinds == {"env", "scl", "loc"}
ArgValues == {0, 1}

VARIABLES
    state,      \* Qutex inner state: 0 = free, 1 = held
    queue,      \* Qutex request queue: requests pushed and not yet popped
    created,    \* number of lock_pending_event calls made so far
    pg,         \* PendingRwGuard p: "none" | "live" (rw_vec is Some) |
                \*   "taken" (rw_vec is None) | "dropped"
    chan,       \* oneshot channel of request p: "empty" | "sent" | "taken"
    ev,         \* wait_event of p is complete
    guard,      \* RwGuard made from p: "none" | "live" | "dropped"
    pc,         \* position of the task polling p: "idle" | "polling"
    ret,        \* the last poll that returned: whose, and what it returned
    grants,     \* requests in the order their RwGuards were produced
    heldAtEnq,  \* the request whose RwGuard was live when p was enqueued, 0 if none
    trig,       \* trigger_event of p: "none" (not minted) | "pending" | "complete"
    unlocks,    \* number of Qutex::unlock calls made so far
    vlen,       \* length of the Vec the RwVec holds
    len,        \* the len field of PendingRwGuard p
    arg_index,  \* Kernel.arg_index
    named_args, \* Kernel.named_args: name -> argument index
    kargs,      \* what clSetKernelArg has bound: argument index -> <<kind, value>>
    nadded,     \* number of argument-adding calls that have returned
    kpanic,     \* a Kernel call has panicked
    task,       \* the task polling PendingRwGuard p: awake, parked or done
    cbreg,      \* _unpark_task is registered on the wait event of p
    rxreg       \* the task of p is registered with the receiver rx of p

\* The lock, its requests and their guards.
lockVars == <<state, queue, created, pg, chan, ev, guard, pc, ret, grants, heldAtEnq,
              trig, unlocks, len>>

\* The Kernel of src/src/kernel.rs.
kernelVars == <<arg_index, named_args, kargs, nadded, kpanic>>

\* The tasks that poll the PendingRwGuards and their wake sources.
wakeVars == <<task, cbreg, rxreg>>

vars == <<lockVars, vlen, kernelVars, wakeVars>>

PollResults == {"NotReady", "Ready", "EventErr", "ChanErr", "Completed"}

TypeOK ==
    /\ state \in {0, 1}
    /\ queue \in Seq(Req)
    /\ created \in 0..NReq
    /\ pg \in [Req -> {"none", "live", "taken", "dropped"}]
    /\ chan \in [Req -> {"empty", "sent", "taken"}]
    /\ ev \in [Req -> BOOLEAN]
    /\ guard \in [Req -> {"none", "live", "dropped"}]
    /\ pc \in [Req -> {"idle", "polling"}]
    /\ ret \in [who : 0..NReq, res : PollResults \cup {"none"}]
    /\ grants \in Seq(Req)
    /\ heldAtEnq \in [Req -> 0..NReq]
    /\ trig \in [Req -> {"none", "pending", "complete"}]
    /\ unlocks \in 0..NReq
    /\ vlen \in 0..MaxLen
    /\ len \in [Req -> 0..MaxLen]
    /\ arg_index \in 0..KernelParams
    /\ DOMAIN named_args \subseteq Names
    /\ \A n \in DOMAIN named_args : named_args[n] \in 0..(KernelParams - 1)
    /\ DOMAIN kargs \subseteq 0..(KernelParams - 1)
    /\ \A i \in DOMAIN kargs : kargs[i] \in ArgKinds \X ArgValues
    /\ nadded \in 0..KernelParams
    /\ kpanic \in BOOLEAN
    /\ task \in [Req -> {"none", "awake", "parked", "done"}]
    /\ cbreg \in [Req -> BOOLEAN]
    /\ rxreg \in [Req -> BOOLEAN]

\* RwVec::new(): free, empty queue, nothing requested yet.
Init ==
    /\ state = 0
    /\ queue = <<>>
    /\ created = 0
    /\ pg = [p \in Req |-> "none"]
    /\ chan = [p \in Req |-> "empty"]
    /\ ev = [p \in Req |-> FALSE]
    /\ guard = [p \in Req |-> "none"]
    /\ pc = [p \in Req |-> "idle"]
    /\ ret = [who |-> 0, res |-> "none"]
    /\ grants = <<>>
    /\ heldAtEnq = [p \in Req |-> 0]
    /\ trig = [p \in Req |-> "none"]
    /\ unlocks = 0
    /\ vlen = 0
    /\ len = [p \in Req |-> 0]
    /\ arg_index = 0
    /\ named_args = <<>>
    /\ kargs = <<>>
    /\ nadded = 0
    /\ kpanic = FALSE
    /\ task = [p \in Req |-> "none"]
    /\ cbreg = [p \in Req |-> FALSE]
    /\ rxreg = [p \in Req |-> FALSE]

(***************************************************************************)
(* The Qutex the RwVec wraps (extern crate qutex, used through             *)
(* push_request, process_queue and unlock).                                *)
(***************************************************************************)

\* A receiver that never counts as dropped.
RxAliveAlways(p) == TRUE

\* The receiver of request p still exists: it is a field of the PendingRwGuard.
RxAlive(p) == pg[p] # "dropped"

\* Qutex::push_request: the request goes to the back of the queue.
PushRequest(q, p) == Append(q, p)

\* The popping loop of process_queue: requests whose send fails (receiver
\* dropped) are discarded; the first whose send succeeds is promoted; an empty
\* queue frees the lock.
RECURSIVE PopLoop(_, _)
PopLoop(q, ch) ==
    IF q = <<>> THEN [state |-> 0, queue |-> q, chan |-> ch]
    ELSE IF RxAlive(Head(q))
         THEN [state |-> 1, queue |-> Tail(q), chan |-> [ch EXCEPT ![Head(q)] = "sent"]]
         ELSE PopLoop(Tail(q), ch)

\* Qutex::process_queue: nothing when held; when free, take the lock and run
\* the popping loop.
ProcessQueue(st, q, ch) ==
    IF st = 1 THEN [state |-> st, queue |-> q, chan |-> ch]
    ELSE PopLoop(q, ch)

\* Qutex::unlock: mark free, then process_queue.
Unlock(q, ch) == ProcessQueue(0, q, ch)

(***************************************************************************)
(* RwVec::lock_pending_event and PendingRwGuard::new                       *)
(***************************************************************************)

\* The holder of the RwGuard, 0 if there is none.
Holder == IF \E p \in Req : guard[p] = "live"
          THEN CHOOSE p \in Req : guard[p] = "live" ELSE 0

\* The request put in front of the queue.
EnqueueFront(q, p) == <<p>> \o q

\* self.qutex.push_request(Request::new(tx)) in lock_pending_event.
Enqueue(q, p) == PushRequest(q, p)

\* Event::user(..): the trigger event is minted, not yet complete.
TriggerAtNew == "pending"

\* (*rw_vec.as_ptr()).len(): the length of the Vec when the request is made.
LenAtNew == vlen

\* lock_pending_event: a channel is made, the request is pushed, and
\* PendingRwGuard::new either builds the pending guard around rx and the
\* caller's wait event (which may already be complete) or fails on
\* wait_event.context()/Event::user, which drops rx with the request queued.
LockPendingEventStep ==
    /\ created < NReq
    /\ LET p == created + 1 IN
       \E ok \in BOOLEAN, done \in BOOLEAN :
          /\ ~ok => ~done
          /\ created' = p
          /\ queue' = Enqueue(queue, p)
          /\ pg' = [pg EXCEPT ![p] = IF ok THEN "live" ELSE "dropped"]
          /\ ev' = [ev EXCEPT ![p] = done]
          /\ heldAtEnq' = [heldAtEnq EXCEPT ![p] = Holder]
          /\ trig' = [trig EXCEPT ![p] = IF ok THEN TriggerAtNew ELSE "none"]
          /\ len' = [len EXCEPT ![p] = IF ok THEN LenAtNew ELSE 0]
    /\ UNCHANGED <<state, chan, guard, pc, ret, grants, unlocks, vlen, kernelVars>>

\* The OpenCL event given to lock_pending_event completes.
CompleteEventStep(p) ==
    /\ pg[p] = "live"
    /\ ~ev[p]
    /\ ev' = [ev EXCEPT ![p] = TRUE]
    /\ UNCHANGED <<state, queue, created, pg, chan, guard, pc, ret, grants, heldAtEnq>>
    /\ UNCHANGED <<trig, unlocks, vlen, len, kernelVars>>

(***************************************************************************)
(* PendingRwGuard::poll, in two steps: the rw_vec test and process_queue,  *)
(* then the event query, the callback registration and rx.poll.            *)
(***************************************************************************)

\* What wait_event.is_complete() can return: the status, or an error.
IsCompleteOutcomes(p) == {"err", IF ev[p] THEN "true" ELSE "false"}

\* What wait_event.set_callback() can return.
SetCallbackOutcomes == {"ok", "err"}

\* poll with the channel test left out: Ready as soon as the event is complete.
PollStatusNoRx(rw, isc, cb, rx) ==
    IF rw # "live" THEN "Completed"
    ELSE IF isc = "err" THEN "EventErr"
    ELSE IF isc = "false" THEN (IF cb = "err" THEN "EventErr" ELSE "NotReady")
    ELSE "Ready"

\* poll with the event test left out: straight to the channel.
PollStatusNoEvent(rw, isc, cb, rx) ==
    IF rw # "live" THEN "Completed"
    ELSE IF rx = "sent" THEN "Ready"
    ELSE IF rx = "empty" THEN "NotReady"
    ELSE "ChanErr"

\* The value poll returns, from rw_vec, the two event calls and the channel.
PollStatus(rw, isc, cb, rx) ==
    IF rw # "live" THEN "Completed"
    ELSE IF isc = "err" THEN "EventErr"
    ELSE IF isc = "false" THEN (IF cb = "err" THEN "EventErr" ELSE "NotReady")
    ELSE IF rx = "sent" THEN "Ready"
    ELSE IF rx = "empty" THEN "NotReady"
    ELSE "ChanErr"

\* rw_vec left in place when the guard is made.
RwVecNotTaken == "live"

\* rw_vec after a poll that yields the guard: self.rw_vec.take().
RwVecAfterTake == "taken"

\* The guard made whatever rx.poll returned, errors included.
YieldsGuardOnErr(res) == res \in {"Ready", "EventErr", "ChanErr"}

\* status.map(..): the RwGuard is made only when the poll result is Ready.
YieldsGuard(res) == res = "Ready"

\* poll without its process_queue call.
PollProcessSkip(st, q, ch) == [state |-> st, queue |-> q, chan |-> ch]

\* poll promoting the head of the queue whether or not the lock is held.
PollProcessUnguarded(st, q, ch) == PopLoop(q, ch)

\* The process_queue call poll makes first.
PollProcess(st, q, ch) == ProcessQueue(st, q, ch)

\* poll, first step: if rw_vec is Some, process_queue.
PollBeginStep(p) ==
    /\ pc[p] = "idle"
    /\ pg[p] \in {"live", "taken"}
    /\ LET r == IF pg[p] = "live" THEN PollProcess(state, queue, chan)
                ELSE [state |-> state, queue |-> queue, chan |-> chan] IN
          /\ state' = r.state
          /\ queue' = r.queue
          /\ chan' = r.chan
    /\ pc' = [pc EXCEPT ![p] = "polling"]
    /\ UNCHANGED <<created, pg, ev, guard, ret, grants, heldAtEnq>>
    /\ UNCHANGED <<trig, unlocks, vlen, len, kernelVars>>

\* poll, second step: the event is queried, the callback registered if it is
\* incomplete, the channel polled; on Ready the RwGuard is made from rw_vec.
PollFinishStep(p, isc, cb) ==
    /\ pc[p] = "polling"
    /\ isc \in IsCompleteOutcomes(p)
    /\ cb \in SetCallbackOutcomes
    /\ LET res == PollStatus(pg[p], isc, cb, chan[p]) IN
          /\ ret' = [who |-> p, res |-> res]
          /\ IF YieldsGuard(res)
             THEN /\ pg' = [pg EXCEPT ![p] = RwVecAfterTake]
                  /\ chan' = [chan EXCEPT ![p] = "taken"]
                  /\ guard' = [guard EXCEPT ![p] = "live"]
                  /\ grants' = Append(grants, p)
             ELSE UNCHANGED <<pg, chan, guard, grants>>
    /\ pc' = [pc EXCEPT ![p] = "idle"]
    /\ UNCHANGED <<state, queue, created, ev, heldAtEnq>>
    /\ UNCHANGED <<trig, unlocks, vlen, len, kernelVars>>

(***************************************************************************)
(* Drops                                                                   *)
(***************************************************************************)

\* A drop that marks the lock free and promotes nobody.
GuardReleaseNoPromote(q, ch) == [state |-> 0, queue |-> q, chan |-> ch]

\* A drop that does not unlock.
GuardReleaseNothing(q, ch) == [state |-> state, queue |-> q, chan |-> ch]

\* What the drop of a RwGuard does to the Qutex: unlock.
GuardRelease(q, ch) == Unlock(q, ch)

\* Drop for RwGuard.
DropRwGuardStep(p) ==
    /\ guard[p] = "live"
    /\ guard' = [guard EXCEPT ![p] = "dropped"]
    /\ LET r == GuardRelease(queue, chan) IN
          /\ state' = r.state
          /\ queue' = r.queue
          /\ chan' = r.chan
    /\ unlocks' = unlocks + 1
    /\ UNCHANGED <<created, pg, ev, pc, ret, grants, heldAtEnq>>
    /\ UNCHANGED <<trig, vlen, len, kernelVars>>

\* A PendingRwGuard is dropped (it has no Drop impl: its fields are dropped,
\* rx among them; nothing is done to the Qutex).
DropPendingStep(p) ==
    /\ pg[p] \in {"live", "taken"}
    /\ pc[p] = "idle"
    /\ pg' = [pg EXCEPT ![p] = "dropped"]
    /\ UNCHANGED <<state, queue, created, chan, ev, guard, pc, ret, grants, heldAtEnq>>
    /\ UNCHANGED <<trig, unlocks, vlen, len, kernelVars>>

\* len() reading the Vec as it is now.
PendingLenLive(p) == vlen

\* PendingRwGuard::len: the len field.
PendingLen(p) == len[p]

\* The holder of the RwGuard pushes an element on the Vec through DerefMut.
Mutate(p) ==
    /\ guard[p] = "live"
    /\ vlen < MaxLen
    /\ vlen' = vlen + 1
    /\ UNCHANGED <<lockVars, kernelVars, wakeVars>>

(***************************************************************************)
(* The operations with tasks that may poll at any time                     *)
(***************************************************************************)

\* Each operation of the RwVec, of its PendingRwGuards and of its RwGuards,
\* called by a task that is free to poll whenever it likes.
LockPendingEvent == LockPendingEventStep /\ UNCHANGED wakeVars

CompleteEvent(p) == CompleteEventStep(p) /\ UNCHANGED wakeVars

PollBegin(p) == PollBeginStep(p) /\ UNCHANGED wakeVars

PollFinish(p) ==
    /\ \E isc \in {"err", "true", "false"}, cb \in {"ok", "err"} :
          PollFinishStep(p, isc, cb)
    /\ UNCHANGED wakeVars

DropRwGuard(p) == DropRwGuardStep(p) /\ UNCHANGED wakeVars

DropPending(p) == DropPendingStep(p) /\ UNCHANGED wakeVars

Next ==
    \/ LockPendingEvent
    \/ \E p \in Req : CompleteEvent(p)
    \/ \E p \in Req : PollBegin(p)
    \/ \E p \in Req : PollFinish(p)
    \/ \E p \in Req : DropRwGuard(p)
    \/ \E p \in Req : DropPending(p)

Spec == Init /\ [][Next]_vars

\* Requests, polls and guard drops, with the holders also growing the Vec;
\* every PendingRwGuard is kept, so that its len() can be asked at any time.
LenNext ==
    \/ LockPendingEvent
    \/ \E p \in Req : CompleteEvent(p)
    \/ \E p \in Req : PollBegin(p)
    \/ \E p \in Req : PollFinish(p)
    \/ \E p \in Req : DropRwGuard(p)
    \/ \E p \in Req : Mutate(p)

LenSpec == Init /\ [][LenNext]_vars


(***************************************************************************)
(* Tasks polled only when woken                                            *)
(***************************************************************************)

\* poll that registers no callback on an incomplete event.
WakeSourceNoCallback(rw, isc, cb, rx) ==
    IF rw = "live" /\ isc = "true" /\ rx = "empty" THEN "channel" ELSE "none"

\* The wake source a poll registers before it returns: the callback
\* _unpark_task on the wait event when is_complete() said false and
\* set_callback succeeded; the task on the receiver when rx.poll() found the
\* channel not fired; nothing on the other paths.
WakeSource(rw, isc, cb, rx) ==
    IF rw # "live" THEN "none"
    ELSE IF isc = "false" THEN (IF cb = "ok" THEN "callback" ELSE "none")
    ELSE IF isc = "true" /\ rx = "empty" THEN "channel"
    ELSE "none"

\* A wake reaching a task: a parked task becomes runnable.
Wake(t) == IF t = "parked" THEN "awake" ELSE t

\* The requests whose channel this step fires while their task is registered
\* with the receiver: the send wakes that task.
Woken == {q \in Req : chan[q] # "sent" /\ chan'[q] = "sent" /\ rxreg[q]}

\* The tasks after the sends of this step, tk being the tasks before them.
AfterSend(tk) == [q \in Req |-> IF q \in Woken THEN Wake(tk[q]) ELSE tk[q]]

\* lock_pending_event by a task that then polls the PendingRwGuard.
WakeLockPendingEvent ==
    /\ LockPendingEventStep
    /\ task' = [task EXCEPT ![created'] = IF pg'[created'] = "live" THEN "awake" ELSE "none"]
    /\ UNCHANGED <<cbreg, rxreg>>

\* The wait event completes: the callbacks registered on it run.
WakeCompleteEvent(p) ==
    /\ CompleteEventStep(p)
    /\ task' = [task EXCEPT ![p] = IF cbreg[p] THEN Wake(@) ELSE @]
    /\ cbreg' = [cbreg EXCEPT ![p] = FALSE]
    /\ UNCHANGED rxreg

\* The executor polls a task that was woken.
WakePollBegin(p) ==
    /\ task[p] = "awake"
    /\ PollBeginStep(p)
    /\ task' = AfterSend([task EXCEPT ![p] = "parked"])
    /\ rxreg' = [q \in Req |-> rxreg[q] /\ q \notin Woken]
    /\ UNCHANGED cbreg

\* The poll returns: NotReady leaves the task to its wake sources; any other
\* result ends the task.
WakePollFinish(p) ==
    \E isc \in {"err", "true", "false"}, cb \in {"ok", "err"} :
       /\ PollFinishStep(p, isc, cb)
       /\ LET src == WakeSource(pg[p], isc, cb, chan[p]) IN
             /\ cbreg' = [cbreg EXCEPT ![p] = @ \/ src = "callback"]
             /\ rxreg' = [rxreg EXCEPT ![p] = @ \/ src = "channel"]
       /\ task' = [task EXCEPT ![p] = IF ret'.res = "NotReady" THEN @ ELSE "done"]

\* The drop of a RwGuard: the send made by unlock wakes the promoted task.
WakeDropRwGuard(p) ==
    /\ DropRwGuardStep(p)
    /\ task' = AfterSend(task)
    /\ rxreg' = [q \in Req |-> rxreg[q] /\ q \notin Woken]
    /\ UNCHANGED cbreg

\* The drop of a PendingRwGuard, its task ending with it.
WakeDropPending(p) ==
    /\ DropPendingStep(p)
    /\ task' = [task EXCEPT ![p] = "done"]
    /\ rxreg' = [rxreg EXCEPT ![p] = FALSE]
    /\ UNCHANGED cbreg

WakeNext ==
    \/ WakeLockPendingEvent
    \/ \E p \in Req : WakeCompleteEvent(p)
    \/ \E p \in Req : WakePollBegin(p)
    \/ \E p \in Req : WakePollFinish(p)
    \/ \E p \in Req : WakeDropRwGuard(p)
    \/ \E p \in Req : WakeDropPending(p)

\* Every task is polled again after each wake, and a poll that began returns.
WakeSpec ==
    /\ Init
    /\ [][WakeNext]_vars
    /\ \A p \in Req : WF_vars(WakePollBegin(p)) /\ WF_vars(WakePollFinish(p))

(***************************************************************************)
(* Kernel of src/src/kernel.rs: argument binding                           *)
(***************************************************************************)

\* f with x mapped to v, x added to its domain if it is not in it.
Put(f, x, v) == [y \in DOMAIN f \cup {x} |-> IF y = x THEN v ELSE f[y]]

\* clSetKernelArg succeeds for the argument indices the kernel has;
\* otherwise must_succ panics.
SetKernelArgOk(idx) == idx < KernelParams

\* self.arg_index += 1 in new_kernel_arg.
NextArgIndex(ai) == ai + 1

\* The index returned after the increment.
ReturnedIndexAfter(ai) == ai + 1

\* new_kernel_arg returns a_i, the index it has just bound.
ReturnedIndex(ai) == ai

\* arg_env, arg_scl, arg_loc (name = "") and arg_scl_named, arg_env_named:
\* new_kernel_arg binds the value at arg_index and moves arg_index on; the
\* named calls record the returned index under the name.
AddArg(kind, name, val) ==
    /\ ~kpanic
    /\ IF SetKernelArgOk(arg_index)
       THEN /\ kargs' = Put(kargs, arg_index, <<kind, val>>)
            /\ arg_index' = NextArgIndex(arg_index)
            /\ named_args' = IF name = "" THEN named_args
                             ELSE Put(named_args, name, ReturnedIndex(arg_index))
            /\ nadded' = nadded + 1
            /\ UNCHANGED kpanic
       ELSE /\ kpanic' = TRUE
            /\ UNCHANGED <<arg_index, named_args, kargs, nadded>>
    /\ UNCHANGED <<lockVars, vlen, wakeVars>>

\* The index a named setter binds: the one recorded under the name.
NamedIndex(name) == named_args[name]

\* set_arg_scl_named, set_arg_env_named: the value is bound at the index
\* recorded under the name; an unknown name panics on named_args[name].
SetArgNamed(kind, name, val) ==
    /\ ~kpanic
    /\ IF name \in DOMAIN named_args /\ SetKernelArgOk(NamedIndex(name))
       THEN /\ kargs' = Put(kargs, NamedIndex(name), <<kind, val>>)
            /\ UNCHANGED <<arg_index, named_args, nadded, kpanic>>
       ELSE /\ kpanic' = TRUE
            /\ UNCHANGED <<arg_index, named_args, kargs, nadded>>
    /\ UNCHANGED <<lockVars, vlen, wakeVars>>

KernelNext ==
    \/ \E kind \in ArgKinds, val \in ArgValues : AddArg(kind, "", val)
    \/ \E kind \in {"scl", "env"}, name \in Names, val \in ArgValues :
          AddArg(kind, name, val)
    \/ \E kind \in {"scl", "env"}, name \in Names, val \in ArgValues :
          SetArgNamed(kind, name, val)

\* Kernel::new, then any sequence of argument calls.
KernelSpec == Init /\ [][KernelNext]_vars

(***************************************************************************)
(* Vocabulary of the properties                                            *)
(***************************************************************************)

\* This step is the return of a poll of p.
PollReturned(p) == pc[p] = "polling" /\ pc'[p] = "idle"

\* The requests that hold a live RwGuard.
LiveGuards == {p \in Req : guard[p] = "live"}

\* p has been given a RwGuard.
Granted(p) == \E i \in 1..Len(grants) : grants[i] = p

\* The first request of q whose receiver still exists, 0 if there is none.
RECURSIVE FirstAlive(_)
FirstAlive(q) ==
    IF q = <<>> THEN 0
    ELSE IF RxAlive(Head(q)) THEN Head(q) ELSE FirstAlive(Tail(q))

PollErrors == {"EventErr", "ChanErr", "Completed"}

(***************************************************************************)
(* C1                                                                      *)
(***************************************************************************)

\* C1: mutual exclusion. In every reachable state, whatever the interleaving of
\* lock_pending_event, poll, event completion and the two drops, at most one
\* RwGuard of the container is live.
C1_MutualExclusion == Cardinality(LiveGuards) <= 1

\* A RwGuard is live while another request, its event complete, was polled
\* and turned away.
C1_Witness ==
    \E p, q \in Req :
        /\ p # q
        /\ guard[p] = "live"
        /\ pg[q] = "live" /\ ev[q]
        /\ ret = [who |-> q, res |-> "NotReady"]

(***************************************************************************)
(* C2                                                                      *)
(***************************************************************************)

\* C2: FIFO grant order. Requests are numbered in enqueue order; whenever a
\* request has been given its RwGuard, every request enqueued before it either
\* was given its RwGuard earlier or is no longer live (its PendingRwGuard is
\* gone and it was never granted). So guards are produced in enqueue order and
\* no later request overtakes an earlier live one, whichever event completes
\* first and whichever is polled first.
C2_FifoGrants ==
    \A i \in 1..Len(grants) :
        \A p \in 1..(grants[i] - 1) :
            \/ \E j \in 1..(i - 1) : grants[j] = p
            \/ pg[p] = "dropped" /\ ~Granted(p)

\* Two guards were granted in order while a third request, its event already
\* complete, has been polled and is still waiting for its turn.
C2_Witness ==
    /\ Len(grants) >= 2
    /\ \E q \in Req : /\ pg[q] = "live" /\ ev[q] /\ ~Granted(q)
                      /\ ret = [who |-> q, res |-> "NotReady"]

(***************************************************************************)
(* C3                                                                      *)
(***************************************************************************)

\* C3: the drop of a RwGuard releases the container and, in the same step,
\* promotes the next queued request (the first one in the queue whose
\* receiver still exists: its channel fires, the container stays held);
\* with no such request the queue is emptied and the container becomes free.
C3_DropPromotesNext ==
    [][\A p \in Req :
          (guard[p] = "live" /\ guard'[p] = "dropped") =>
             LET n == FirstAlive(queue) IN
             IF n = 0
             THEN state' = 0 /\ queue' = <<>> /\ chan' = chan
             ELSE /\ state' = 1
                  /\ chan[n] = "empty" /\ chan'[n] = "sent"
                  /\ \A i \in 1..Len(queue') : queue'[i] > n
                  /\ \A m \in Req \ {n} : chan'[m] = chan[m]]_vars

\* A guard was dropped and the request enqueued behind it while it was held
\* has been promoted.
C3_Witness ==
    \E p, n \in Req :
        /\ guard[p] = "dropped"
        /\ heldAtEnq[n] = p
        /\ chan[n] = "sent"
        /\ state = 1

(***************************************************************************)
(* C4                                                                      *)
(***************************************************************************)

\* C4 as stated: while the wait event of a PendingRwGuard is incomplete, every
\* poll returns NotReady and makes no RwGuard, promoted or not; and a
\* PendingRwGuard yields a RwGuard only once.
C4_Original ==
    [][\A p \in Req :
          (PollReturned(p) /\ pg[p] = "live") =>
             /\ ~ev[p] => (ret'.res = "NotReady" /\ guard'[p] = "none")
             /\ ret'.res = "Ready" => ~Granted(p)]_vars

\* C4, amended: while the wait event is incomplete, every poll returns
\* NotReady or the error of the failed event call, and makes no RwGuard, even
\* if the request has been promoted; once the event is complete and the
\* request promoted, a poll yields the RwGuard unless the event query fails;
\* a RwGuard is yielded at most once over the life of the PendingRwGuard.
C4_EventGating ==
    [][\A p \in Req :
          PollReturned(p) =>
             /\ ret'.who = p
             /\ (pg[p] = "live" /\ ~ev[p]) =>
                    /\ ret'.res \in {"NotReady", "EventErr"}
                    /\ guard'[p] = "none"
             /\ (pg[p] = "live" /\ ev[p] /\ chan[p] = "sent") =>
                    ret'.res \in {"Ready", "EventErr"}
             /\ ret'.res = "Ready" =>
                    /\ ~Granted(p)
                    /\ guard[p] = "none" /\ guard'[p] = "live"]_vars

\* A promoted request whose event is incomplete was polled and got NotReady.
C4_Witness ==
    \E p \in Req :
        /\ pg[p] = "live" /\ ~ev[p] /\ chan[p] = "sent"
        /\ ret = [who |-> p, res |-> "NotReady"]

(***************************************************************************)
(* C5                                                                      *)
(***************************************************************************)

\* C5: dropping unresolved PendingRwGuards does not block a later requester.
\* When every request enqueued before q had its PendingRwGuard dropped
\* without a RwGuard ever being made from it, a poll of q with q's wait event
\* complete does not return NotReady (it yields the RwGuard, or reports a
\* failed event query).
C5_DropDoesNotBlock ==
    [][\A q \in Req :
          ( /\ PollReturned(q)
            /\ pg[q] = "live" /\ ev[q]
            /\ \A p \in 1..(q - 1) : pg[p] = "dropped" /\ guard[p] = "none" )
          => ret'.res # "NotReady"]_vars

(***************************************************************************)
(* C6                                                                      *)
(***************************************************************************)

\* C6: once a PendingRwGuard has resolved to a RwGuard, every later poll of it
\* returns the "already completed" error and makes no second RwGuard.
C6_PollAfterResolved ==
    [][\A p \in Req :
          (PollReturned(p) /\ Granted(p)) =>
             /\ ret' = [who |-> p, res |-> "Completed"]
             /\ guard' = guard
             /\ grants' = grants]_vars

\* A resolved PendingRwGuard was polled again and answered "already completed".
C6_Witness ==
    \E p \in Req :
        /\ Granted(p) /\ pg[p] = "taken"
        /\ ret = [who |-> p, res |-> "Completed"]

(***************************************************************************)
(* C7                                                                      *)
(***************************************************************************)

\* C7: Failed is terminal. When the last poll of p returned a failure of the
\* wait event or of the channel, the next poll of p returns the "already
\* completed" error.
C7_FailedIsTerminal ==
    [][\A p \in Req :
          ( /\ PollReturned(p)
            /\ ret.who = p
            /\ ret.res \in {"EventErr", "ChanErr"} )
          => ret'.res = "Completed"]_vars

(***************************************************************************)
(* C8                                                                      *)
(***************************************************************************)

\* Both conditions of C8 for request q, enqueued while a held the RwGuard.
C8_BothHold(q) == guard[heldAtEnq[q]] = "dropped" /\ ev[q]

\* C8 as stated: a PendingRwGuard enqueued while A held the RwGuard yields a
\* RwGuard from a poll if and only if A's guard has been dropped and its own
\* event is complete; every poll before that returns NotReady.
C8_Original ==
    [][\A q \in Req :
          (PollReturned(q) /\ pg[q] = "live" /\ heldAtEnq[q] # 0) =>
             /\ ret'.res = "Ready" <=> C8_BothHold(q)
             /\ ~C8_BothHold(q) => ret'.res = "NotReady"]_vars

\* C8, amended: a PendingRwGuard enqueued while A held the RwGuard yields a
\* RwGuard only if A's guard has been dropped and its own event is complete;
\* every poll before both hold returns NotReady or the error of a failed
\* event call; and when it is the request enqueued right behind A, a poll
\* after both hold yields the RwGuard unless the event query fails.
C8_WaitsForHolderAndEvent ==
    [][\A q \in Req :
          (PollReturned(q) /\ pg[q] = "live" /\ heldAtEnq[q] # 0) =>
             /\ ret'.res = "Ready" => C8_BothHold(q)
             /\ ~C8_BothHold(q) => ret'.res \in {"NotReady", "EventErr"}
             /\ (C8_BothHold(q) /\ q = heldAtEnq[q] + 1) =>
                    ret'.res \in {"Ready", "EventErr"}]_vars

\* The request enqueued right behind a holder got its RwGuard after having
\* been enqueued while that holder's guard was live.
C8_Witness ==
    \E q \in Req :
        /\ heldAtEnq[q] # 0 /\ q = heldAtEnq[q] + 1
        /\ guard[heldAtEnq[q]] = "dropped"
        /\ guard[q] = "live"
        /\ ret = [who |-> q, res |-> "Ready"]

(***************************************************************************)
(* C9                                                                      *)
(***************************************************************************)

\* The container is free, nobody holds a guard, and p is the only queued
\* request, its event complete, its PendingRwGuard idle.
C9_AloneAndReady(p) ==
    /\ state = 0 /\ LiveGuards = {}
    /\ queue = <<p>>
    /\ pg[p] = "live" /\ ev[p] /\ pc[p] = "idle"

\* The poll of p that started on such a container is still running.
C9_Promoted(p) == pc[p] = "polling" /\ pg[p] = "live" /\ ev[p] /\ chan[p] = "sent"

\* C9 as stated: on a free container with exactly one queued request whose
\* event is complete, the poll of that request yields the RwGuard by itself:
\* its own process_queue promotes it, no step of anybody else undoes that,
\* and its return is Ready.
C9_Original ==
    [][\A p \in Req :
          /\ (C9_AloneAndReady(p) /\ pc'[p] = "polling") => C9_Promoted(p)'
          /\ C9_Promoted(p) => (C9_Promoted(p)' \/ PollReturned(p))
          /\ (C9_Promoted(p) /\ PollReturned(p)) =>
                 /\ ret' = [who |-> p, res |-> "Ready"]
                 /\ guard'[p] = "live"]_vars

\* C9, amended: the same, the poll yielding the RwGuard unless its event query
\* fails, in which case it returns that error.
C9_SelfPromotingPoll ==
    [][\A p \in Req :
          /\ (C9_AloneAndReady(p) /\ pc'[p] = "polling") => C9_Promoted(p)'
          /\ C9_Promoted(p) => (C9_Promoted(p)' \/ PollReturned(p))
          /\ (C9_Promoted(p) /\ PollReturned(p)) =>
                 \/ ret' = [who |-> p, res |-> "Ready"] /\ guard'[p] = "live"
                 \/ ret' = [who |-> p, res |-> "EventErr"] /\ guard'[p] = "none"]_vars

\* The only request ever made was granted by its own poll.
C9_Witness ==
    /\ created = 1
    /\ grants = <<1>>
    /\ guard[1] = "live"
    /\ ret = [who |-> 1, res |-> "Ready"]

(***************************************************************************)
(* C10                                                                     *)
(***************************************************************************)

\* C10: a poll that returns an error makes no RwGuard: it leaves the guards,
\* the grant history, the PendingRwGuard, its channel and the Qutex as they
\* were, and the error is what the caller gets from that one poll.
C10_ErrorYieldsNoGuard ==
    [][\A p \in Req :
          (PollReturned(p) /\ ret'.res \in PollErrors) =>
             /\ ret'.who = p
             /\ guard' = guard
             /\ grants' = grants
             /\ pg' = pg
             /\ chan' = chan
             /\ state' = state /\ queue' = queue]_vars

\* A poll failed on the event query although the request was promoted and the
\* event complete: no guard was made.
C10_Witness ==
    \E p \in Req :
        /\ ret = [who |-> p, res |-> "EventErr"]
        /\ pg[p] = "live" /\ ev[p] /\ chan[p] = "sent"
        /\ guard[p] = "none"

(***************************************************************************)
(* C11                                                                     *)
(***************************************************************************)

\* C11: the trigger event minted with a PendingRwGuard is incomplete until
\* the PendingRwGuard resolves and is complete once it has resolved to a
\* RwGuard, so that whoever waits on it proceeds after the resolution.
C11_TriggerSignalled ==
    \A p \in Req :
        trig[p] # "none" => (trig[p] = "complete" <=> Granted(p))

(***************************************************************************)
(* C12                                                                     *)
(***************************************************************************)

\* This step is the lock_pending_event call that made a PendingRwGuard for p
\* on a free container with an empty queue.
C12_LockOnFree(p) ==
    /\ state = 0 /\ queue = <<>>
    /\ created = p - 1 /\ created' = p
    /\ pg'[p] = "live"

C14_DeadQueued(p) ==
    /\ pg[p] = "dropped" /\ chan[p] = "empty"
    /\ \E i \in 1..Len(queue) : queue[i] = p

\* C14: a queued request whose receiver was dropped before promotion never
\* becomes the holder (its channel never fires); a promotion step that finds
\* it at the head of the queue removes it without failing and, in the same
\* step, promotes the first request behind it whose receiver still exists,
\* or frees the container when there is none.
C14_DeadRequestSkipped ==
    [][\A p \in Req :
          C14_DeadQueued(p) =>
             /\ chan'[p] = "empty"
             /\ (Head(queue) = p /\ Len(queue') < Len(queue)) =>
                    LET n == FirstAlive(queue) IN
                    IF n = 0
                    THEN state' = 0 /\ queue' = <<>>
                    ELSE /\ state' = 1 /\ chan'[n] = "sent"
                         /\ \A i \in 1..Len(queue') : queue'[i] > n]_vars

\* A request whose receiver was dropped has been popped unpromoted, and the
\* request behind it holds the promotion.
C14_Witness ==
    \E p, n \in Req :
        /\ p < n /\ n <= created
        /\ pg[p] = "dropped" /\ chan[p] = "empty"
        /\ \A i \in 1..Len(queue) : queue[i] # p
        /\ pg[n] = "live" /\ chan[n] = "sent"

(***************************************************************************)
(* C15                                                                     *)
(***************************************************************************)

\* The RwGuards dropped so far.
DroppedGuards == {p \in Req : guard[p] = "dropped"}

\* C15: release runs exactly once per RwGuard. The number of unlock calls is
\* the number of RwGuards dropped; every unlock is made by the drop of the
\* one live RwGuard, on a held container, and leaves the container free or
\* handed to a newly promoted request; no other step unlocks.
C15_ReleaseOncePerGuard ==
    [][/\ unlocks' = Cardinality(DroppedGuards')
       /\ \A p \in Req :
             (guard[p] = "live" /\ guard'[p] = "dropped") =>
                /\ unlocks' = unlocks + 1
                /\ state = 1
                /\ LiveGuards = {p}
                /\ state' = 1 =>
                      \E q \in Req \ {p} : chan[q] # "sent" /\ chan'[q] = "sent"
       /\ unlocks' # unlocks =>
             \E p \in Req : guard[p] = "live" /\ guard'[p] = "dropped"]_vars

\* Two RwGuards have been dropped and two unlocks made.
C15_Witness == unlocks = 2 /\ Cardinality(DroppedGuards) = 2

(***************************************************************************)
(* C18                                                                     *)
(***************************************************************************)

\* The owners of the lock: the live RwGuards, and the live unresolved
\* PendingRwGuards whose notification has fired.
Owners == LiveGuards \cup {p \in Req : pg[p] = "live" /\ chan[p] = "sent"}

\* C18: the container is held if and only if exactly one owner exists, and
\* there is never more than one.
C18_HeldIffOneOwner ==
    /\ Cardinality(Owners) <= 1
    /\ state = 1 <=> Cardinality(Owners) = 1

(***************************************************************************)
(* C17                                                                     *)
(***************************************************************************)

\* C17: len() of a PendingRwGuard is the length the Vec had when
\* lock_pending_event made it, and no later step changes it while the
\* PendingRwGuard exists: no poll, and no change of the Vec made through a
\* RwGuard, before or after the PendingRwGuard resolves.
C17_LenIsCaptured ==
    [][\A p \in Req :
          /\ (created = p - 1 /\ created' = p /\ pg'[p] = "live") =>
                 PendingLen(p)' = vlen
          /\ (pg[p] \in {"live", "taken"} /\ pg'[p] \in {"live", "taken"}) =>
                 PendingLen(p)' = PendingLen(p)]_vars

\* A PendingRwGuard still waits with a captured length that is no longer the
\* length of the Vec, which another requester's RwGuard has changed.
C17_Witness ==
    \E p, q \in Req :
        /\ p # q
        /\ pg[p] = "live" /\ PendingLen(p) # vlen
        /\ guard[q] = "live"
        /\ ret.who = p

(***************************************************************************)
(* C13                                                                     *)
(***************************************************************************)

\* The requests this step promotes.
C13_Promoted == {p \in Req : chan[p] # "sent" /\ chan'[p] = "sent"}

\* This step is the process_queue call of a poll.
C13_PollProcessed == \E p \in Req : pg[p] = "live" /\ pc[p] = "idle" /\ pc'[p] = "polling"

\* The requests that own the lock or have been handed it.
C13_Handed == {p \in Req : chan[p] = "sent"} \cup LiveGuards

\* The requests in the queue.
C13_Queued == {queue[i] : i \in 1..Len(queue)}

C16_Parked(p) == pg[p] = "live" /\ pc[p] = "idle" /\ task[p] = "parked"

\* A parked task has a wake source that has yet to fire: the callback on its
\* incomplete wait event, or the receiver of its unfired channel.
C16_WakeRegistered ==
    \A p \in Req : C16_Parked(p) => \/ cbreg[p] /\ ~ev[p]
                                    \/ rxreg[p] /\ chan[p] = "empty"

\* The wait event of p fires, p is kept, and every earlier requester comes
\* to drop its RwGuard.
C16_Fires(p) ==
    /\ <>(ev[p])
    /\ [](pg[p] # "dropped")
    /\ \A q \in Req : q < p => <>(guard[q] = "dropped")

\* No poll of p fails.
C16_NoPollError(p) == [](~(ret.who = p /\ ret.res \in PollErrors))

C19_Added == nadded' = nadded + 1

\* This step is a named setter that returned.
C19_Rebound == ~kpanic' /\ nadded' = nadded /\ kargs' # kargs

\* C19: kernel argument indexing. The k-th added argument is bound at index
\* k-1 and arg_index is the number of arguments added: every adding call
\* binds exactly the index arg_index = nadded and moves arg_index on by one;
\* a named adding call records that index under its name and leaves the
\* other names alone; a named setter rebinds exactly the index recorded under
\* its name and changes neither arg_index nor any recorded index.
C19_ArgIndexing ==
    [][/\ arg_index' = nadded'
       /\ DOMAIN kargs' = 0..(nadded' - 1)
       /\ C19_Added =>
             /\ arg_index = nadded /\ arg_index' = arg_index + 1
             /\ \A i \in DOMAIN kargs : kargs'[i] = kargs[i]
             /\ \A n \in DOMAIN named_args' :
                   \/ n \in DOMAIN named_args /\ named_args'[n] = named_args[n]
                   \/ named_args'[n] = arg_index
             /\ \A n \in DOMAIN named_args : n \in DOMAIN named_args'
             /\ Cardinality({n \in DOMAIN named_args' :
                    n \notin DOMAIN named_args \/ named_args'[n] # named_args[n]}) <= 1
       /\ C19_Rebound =>
             /\ arg_index' = arg_index /\ named_args' = named_args
             /\ \E n \in DOMAIN named_args :
                   \A i \in DOMAIN kargs : i # named_args[n] => kargs'[i] = kargs[i]]_vars

\* Three arguments were added, the second under a name, and the setter has
\* given that argument a value other than the first one's.
C19_Witness ==
    /\ nadded = 3 /\ arg_index = 3
    /\ "a" \in DOMAIN named_args /\ named_args["a"] = 1
    /\ kargs[1] = <<"scl", 1>> /\ kargs[0] = <<"scl", 0>> /\ kargs[2] = <<"loc", 0>>

====
